---- MODULE Spec2Model ----
(***************************************************************************)
(* The ECR tagger of src/ecr/tag.go: Add, Remove and Get over a remote     *)
(* image registry, with a failure counter per kind of remote call.         *)
(*                                                                         *)
(* The registry is the remote side of the four calls the code issues.  It  *)
(* is the map from an image (its digest, equally its manifest) to the set  *)
(* of tags it carries; the code itself allows a tag to sit on several      *)
(* images (Get tests for it, Add and Remove loop over the images found).   *)
(* Any remote call may fail: failAt is the position, among the remote      *)
(* calls an operation issues, of the call that fails (0: none fails).      *)
(* A lookup lists the images by ascending digest; every registry is an     *)
(* initial state, so every order of the images found is covered.           *)
(***************************************************************************)
EXTENDS Naturals, Sequences, FiniteSets

NumImages == 2
MaxTags == 2
MaxCount == 1

Tags == {"v1", "env"}
Images == 1..NumImages
Refs == {"arn:aws:ecr:us-east-1:123456789012:repository/app", "malformed"}
TagLists == UNION {[1..n -> Tags] : n \in 0..MaxTags}
Counters == {"batchget", "putimage", "batchdelete", "descimg"}
MaxCalls == MaxTags * (NumImages + 1)

VARIABLES reg, stats, last, prev

vars == <<reg, stats, last, prev>>

\* No call: the value of last while the caller holds no outcome.
NoCall ==
  [kind |-> "none", ref |-> "", version |-> "", tags |-> <<>>, failAt |-> 0,
   before |-> <<>>, calls |-> <<>>, result |-> "none", ret |-> {}]

Total(s) == s["batchget"] + s["putimage"] + s["batchdelete"] + s["descimg"]

\* The positions at which a remote call may be made to fail: the failure
\* counters are unbounded in the code and capped here.
FailPoints == IF Total(stats) < MaxCount THEN 0..MaxCalls ELSE {0}

\* NameAccountRegionFromARN lives in another file of the package: a malformed
\* reference yields an error, any other the repository's routing triple.
NameAccountRegionFromARN(ref) == [err |-> ref = "malformed"]

RECURSIVE Ascending(_)
Ascending(S) ==
  IF S = {} THEN <<>>
  ELSE LET m == CHOOSE x \in S : \A y \in S : x <= y
       IN <<m>> \o Ascending(S \ {m})

\* stats.IncCount(name)
IncCount(s, name) == [s EXCEPT ![name] = @ + 1]

\* ecrClient.BatchGetImage with one ImageTag: the images carrying the tag.
BatchGetImage(r, tag) == Ascending({img \in Images : tag \in r[img]})

\* Mutant of PutImage: the tag moves, every other image loses it.
PutImageMoves(r, img, tag) ==
  [x \in Images |-> IF x = img THEN r[x] \cup {tag} ELSE r[x] \ {tag}]

\* ecrClient.PutImage(manifest, tag): the image of that manifest gains the tag.
PutImage(r, img, tag) == [r EXCEPT ![img] = @ \cup {tag}]

\* Mutant of BatchDeleteImage: the request names the tag and no digest, and
\* every image loses the tag.
BatchDeleteImageByTagOnly(r, img, tag) == [x \in Images |-> r[x] \ {tag}]

\* ecrClient.BatchDeleteImage(tag, digest): that image loses the tag.
BatchDeleteImage(r, img, tag) == [r EXCEPT ![img] = @ \ {tag}]

\* ecrClient.DescribeImages with one ImageTag: the details (tag sets) of the
\* images carrying the tag.
DescribeImages(r, tag) ==
  LET imgs == BatchGetImage(r, tag)
  IN [j \in 1..Len(imgs) |-> r[imgs[j]]]

\* Mutant of AddImages: a put of a tag the image already carries is an error.
RECURSIVE AddImagesRejectsPresent(_, _, _, _, _, _, _)
AddImagesRejectsPresent(r, s, imgs, tag, j, calls, failAt) ==
  IF j > Len(imgs) THEN [reg |-> r, stats |-> s, calls |-> calls, err |-> FALSE]
  ELSE LET c == Append(calls, "putimage")
       IN IF failAt = Len(c) \/ tag \in r[imgs[j]]
          THEN [reg |-> r, stats |-> IncCount(s, "putimage"), calls |-> c, err |-> TRUE]
          ELSE AddImagesRejectsPresent(PutImage(r, imgs[j], tag), s, imgs, tag, j + 1, c, failAt)

\* Mutant of AddImages: an empty lookup result is reported as an error.
RECURSIVE AddImagesFailsOnEmpty(_, _, _, _, _, _, _)
AddImagesFailsOnEmpty(r, s, imgs, tag, j, calls, failAt) ==
  IF Len(imgs) = 0
  THEN [reg |-> r, stats |-> IncCount(s, "batchget"), calls |-> calls, err |-> TRUE]
  ELSE IF j > Len(imgs) THEN [reg |-> r, stats |-> s, calls |-> calls, err |-> FALSE]
  ELSE LET c == Append(calls, "putimage")
       IN IF failAt = Len(c)
          THEN [reg |-> r, stats |-> IncCount(s, "putimage"), calls |-> c, err |-> TRUE]
          ELSE AddImagesFailsOnEmpty(PutImage(r, imgs[j], tag), s, imgs, tag, j + 1, c, failAt)

\* Add's inner loop over getRes.Images, from image j on.
RECURSIVE AddImages(_, _, _, _, _, _, _)
AddImages(r, s, imgs, tag, j, calls, failAt) ==
  IF j > Len(imgs) THEN [reg |-> r, stats |-> s, calls |-> calls, err |-> FALSE]
  ELSE LET c == Append(calls, "putimage")
       IN IF failAt = Len(c)
          THEN [reg |-> r, stats |-> IncCount(s, "putimage"), calls |-> c, err |-> TRUE]
          ELSE AddImages(PutImage(r, imgs[j], tag), s, imgs, tag, j + 1, c, failAt)

\* Mutant of AddTags: the lookup asks for the tag to add, as Remove's does,
\* and not for version.
RECURSIVE AddTagsLooksUpTag(_, _, _, _, _, _, _)
AddTagsLooksUpTag(r, s, version, tags, i, calls, failAt) ==
  IF i > Len(tags) THEN [reg |-> r, stats |-> s, calls |-> calls, err |-> FALSE]
  ELSE LET c == Append(calls, "batchget")
       IN IF failAt = Len(c)
          THEN [reg |-> r, stats |-> IncCount(s, "batchget"), calls |-> c, err |-> TRUE]
          ELSE LET out == AddImages(r, s, BatchGetImage(r, tags[i]), tags[i], 1, c, failAt)
               IN IF out.err THEN out
                  ELSE AddTagsLooksUpTag(out.reg, out.stats, version, tags, i + 1, out.calls, failAt)

\* Mutant of AddTags: a failed put is counted and the loop goes on to the
\* next tag.
RECURSIVE AddTagsGoesOn(_, _, _, _, _, _, _)
AddTagsGoesOn(r, s, version, tags, i, calls, failAt) ==
  IF i > Len(tags) THEN [reg |-> r, stats |-> s, calls |-> calls, err |-> FALSE]
  ELSE LET c == Append(calls, "batchget")
       IN IF failAt = Len(c)
          THEN [reg |-> r, stats |-> IncCount(s, "batchget"), calls |-> c, err |-> TRUE]
          ELSE LET out == AddImages(r, s, BatchGetImage(r, version), tags[i], 1, c, failAt)
               IN AddTagsGoesOn(out.reg, out.stats, version, tags, i + 1, out.calls, failAt)

\* Add's loop over tags, from tag i on.
RECURSIVE AddTags(_, _, _, _, _, _, _)
AddTags(r, s, version, tags, i, calls, failAt) ==
  IF i > Len(tags) THEN [reg |-> r, stats |-> s, calls |-> calls, err |-> FALSE]
  ELSE LET c == Append(calls, "batchget")
       IN IF failAt = Len(c)
          THEN [reg |-> r, stats |-> IncCount(s, "batchget"), calls |-> c, err |-> TRUE]
          ELSE LET out == AddImages(r, s, BatchGetImage(r, version), tags[i], 1, c, failAt)
               IN IF out.err THEN out
                  ELSE AddTags(out.reg, out.stats, version, tags, i + 1, out.calls, failAt)

\* tagger.Add
RunAdd(r, s, ref, version, tags, failAt) ==
  IF NameAccountRegionFromARN(ref).err
  THEN [reg |-> r, stats |-> s, calls |-> <<>>, result |-> "ParseError", ret |-> {}]
  ELSE LET out == AddTags(r, s, version, tags, 1, <<>>, failAt)
       IN [reg |-> out.reg, stats |-> out.stats, calls |-> out.calls,
           result |-> IF out.err THEN "RemoteCallError" ELSE "ok", ret |-> {}]

\* Mutant of RemoveImages: only the first image found is deleted from.
RemoveImagesFirstOnly(r, s, imgs, tag, j, calls, failAt) ==
  IF j > Len(imgs) THEN [reg |-> r, stats |-> s, calls |-> calls, err |-> FALSE]
  ELSE LET c == Append(calls, "batchdelete")
       IN IF failAt = Len(c)
          THEN [reg |-> r, stats |-> IncCount(s, "batchdelete"), calls |-> c, err |-> TRUE]
          ELSE [reg |-> BatchDeleteImage(r, imgs[j], tag), stats |-> s, calls |-> c,
                err |-> FALSE]

\* Remove's inner loop over getRes.Images, from image j on.
RECURSIVE RemoveImages(_, _, _, _, _, _, _)
RemoveImages(r, s, imgs, tag, j, calls, failAt) ==
  IF j > Len(imgs) THEN [reg |-> r, stats |-> s, calls |-> calls, err |-> FALSE]
  ELSE LET c == Append(calls, "batchdelete")
       IN IF failAt = Len(c)
          THEN [reg |-> r, stats |-> IncCount(s, "batchdelete"), calls |-> c, err |-> TRUE]
          ELSE RemoveImages(BatchDeleteImage(r, imgs[j], tag), s, imgs, tag, j + 1, c, failAt)

\* Remove's loop over tags, from tag i on.
RECURSIVE RemoveTags(_, _, _, _, _, _)
RemoveTags(r, s, tags, i, calls, failAt) ==
  IF i > Len(tags) THEN [reg |-> r, stats |-> s, calls |-> calls, err |-> FALSE]
  ELSE LET c == Append(calls, "batchget")
       IN IF failAt = Len(c)
          THEN [reg |-> r, stats |-> IncCount(s, "batchget"), calls |-> c, err |-> TRUE]
          ELSE LET out == RemoveImages(r, s, BatchGetImage(r, tags[i]), tags[i], 1, c, failAt)
               IN IF out.err THEN out
                  ELSE RemoveTags(out.reg, out.stats, tags, i + 1, out.calls, failAt)

\* tagger.Remove
RunRemove(r, s, ref, tags, failAt) ==
  IF NameAccountRegionFromARN(ref).err
  THEN [reg |-> r, stats |-> s, calls |-> <<>>, result |-> "ParseError", ret |-> {}]
  ELSE LET out == RemoveTags(r, s, tags, 1, <<>>, failAt)
       IN [reg |-> out.reg, stats |-> out.stats, calls |-> out.calls,
           result |-> IF out.err THEN "RemoteCallError" ELSE "ok", ret |-> {}]

\* Mutant of RunGet: without the test for more than one image.
RunGetFirstOfMany(r, s, ref, version, failAt) ==
  IF NameAccountRegionFromARN(ref).err
  THEN [reg |-> r, stats |-> s, calls |-> <<>>, result |-> "ParseError", ret |-> {}]
  ELSE IF failAt = 1
  THEN [reg |-> r, stats |-> IncCount(s, "descimg"), calls |-> <<"descimg">>,
        result |-> "RemoteCallError", ret |-> {}]
  ELSE LET details == DescribeImages(r, version)
       IN IF Len(details) = 0
          THEN [reg |-> r, stats |-> s, calls |-> <<"descimg">>,
                result |-> "panic", ret |-> {}]
          ELSE [reg |-> r, stats |-> s, calls |-> <<"descimg">>,
                result |-> "ok", ret |-> details[1]]

\* tagger.Get.  Indexing ImageDetails[0] of an empty result is a run-time
\* panic (index out of range).
RunGet(r, s, ref, version, failAt) ==
  IF NameAccountRegionFromARN(ref).err
  THEN [reg |-> r, stats |-> s, calls |-> <<>>, result |-> "ParseError", ret |-> {}]
  ELSE IF failAt = 1
  THEN [reg |-> r, stats |-> IncCount(s, "descimg"), calls |-> <<"descimg">>,
        result |-> "RemoteCallError", ret |-> {}]
  ELSE LET details == DescribeImages(r, version)
       IN IF Len(details) > 1
          THEN [reg |-> r, stats |-> s, calls |-> <<"descimg">>,
                result |-> "InvariantViolation", ret |-> {}]
          ELSE IF Len(details) = 0
          THEN [reg |-> r, stats |-> s, calls |-> <<"descimg">>,
                result |-> "panic", ret |-> {}]
          ELSE [reg |-> r, stats |-> s, calls |-> <<"descimg">>,
                result |-> "ok", ret |-> details[1]]

Outcome(kind, ref, version, tags, failAt, out) ==
  [kind |-> kind, ref |-> ref, version |-> version, tags |-> tags, failAt |-> failAt,
   before |-> reg, calls |-> out.calls, result |-> out.result, ret |-> out.ret]

Init ==
  /\ reg \in [Images -> SUBSET Tags]
  /\ stats = [c \in Counters |-> 0]
  /\ last = NoCall
  /\ prev = NoCall

\* A caller that holds no outcome calls Add.
Add ==
  /\ last = NoCall
  /\ \E ref \in Refs, version \in Tags, tags \in TagLists, failAt \in FailPoints :
       LET out == RunAdd(reg, stats, ref, version, tags, failAt)
       IN /\ failAt <= Len(out.calls)
          /\ reg' = out.reg
          /\ stats' = out.stats
          /\ last' = Outcome("Add", ref, version, tags, failAt, out)
          /\ prev' = NoCall

\* A caller that holds no outcome calls Remove.
Remove ==
  /\ last = NoCall
  /\ \E ref \in Refs, tags \in TagLists, failAt \in FailPoints :
       LET out == RunRemove(reg, stats, ref, tags, failAt)
       IN /\ failAt <= Len(out.calls)
          /\ reg' = out.reg
          /\ stats' = out.stats
          /\ last' = Outcome("Remove", ref, "", tags, failAt, out)
          /\ prev' = NoCall

GetFrom(p) ==
  \E ref \in Refs, version \in Tags, failAt \in FailPoints :
    LET out == RunGet(reg, stats, ref, version, failAt)
    IN /\ failAt <= Len(out.calls)
       /\ reg' = out.reg
       /\ stats' = out.stats
       /\ last' = Outcome("Get", ref, version, <<>>, failAt, out)
       /\ prev' = p

\* A caller that holds no outcome calls Get.
Get ==
  /\ last = NoCall
  /\ GetFrom(NoCall)

\* Get is called straight after another call returned: prev holds the outcome
\* of the call that Get immediately follows.
GetAfter ==
  /\ last # NoCall
  /\ GetFrom(last)

\* The caller drops the outcome it holds.
Return ==
  /\ last # NoCall
  /\ last' = NoCall
  /\ prev' = NoCall
  /\ UNCHANGED <<reg, stats>>

Next == Add \/ Remove \/ Get \/ Return

Spec == Init /\ [][Next]_vars

\* The same program, where Get may also follow a call immediately.
NextSeq == Add \/ Remove \/ Get \/ GetAfter \/ Return

SpecSeq == Init /\ [][NextSeq]_vars

(***************************************************************************)
(* Vocabulary of the claims.                                               *)
(***************************************************************************)
Carriers(r, tag) == {img \in Images : tag \in r[img]}

Elems(q) == {q[n] : n \in 1..Len(q)}

WellFormed(l) == ~NameAccountRegionFromARN(l.ref).err

\* A tag is on the same images in r1 and in r2.
SameOn(r1, r2, tag) == Carriers(r1, tag) = Carriers(r2, tag)

\* The lookups (batchget) among the calls: the last one is at LastLookup,
\* and their number is the index k of the tag in progress.
Lookups(l) == {n \in 1..Len(l.calls) : l.calls[n] = "batchget"}

TagIndex(l) == Cardinality(Lookups(l))

LastLookup(l) == CHOOSE n \in Lookups(l) : \A m \in Lookups(l) : m <= n

\* The attach/delete calls of the tag in progress that succeeded before the
\* failing call.
Processed(l) ==
  IF l.calls[Len(l.calls)] = "batchget" THEN 0 ELSE Len(l.calls) - LastLookup(l) - 1

\* The tag list without the later occurrences of a tag.
RECURSIVE Dedup(_)
Dedup(q) ==
  IF q = <<>> THEN <<>>
  ELSE LET front == Dedup(SubSeq(q, 1, Len(q) - 1))
       IN IF q[Len(q)] \in Elems(front) THEN front ELSE Append(front, q[Len(q)])

\* t(1)..t(k-1) are fully applied (Add: on every image bound to version) or
\* fully removed (Remove: on no image).
EarlierDone(l, r) ==
  \A m \in 1..(TagIndex(l) - 1) :
    IF l.kind = "Add"
    THEN \A img \in Carriers(l.before, l.version) : l.tags[m] \in r[img]
    ELSE Carriers(r, l.tags[m]) = {}

AbortedAtTag(l) ==
  /\ l.kind \in {"Add", "Remove"}
  /\ l.result = "RemoteCallError"

\* C1: Get on a well-formed reference whose lookup succeeds and finds no image
\* of version returns NotFound (and does not panic).
C1_GetZeroIsNotFound ==
  (/\ last.kind = "Get"
   /\ WellFormed(last)
   /\ last.failAt = 0
   /\ Carriers(last.before, last.version) = {})
  => last.result = "NotFound"

\* C2 as stated: after an Add or Remove aborted by a remote failure at tag
\* t(k), t(1)..t(k-1) are fully applied/removed and every tag t(k)..t(n) is on
\* exactly the images it was on before the call.
C2_ExactBoundary ==
  AbortedAtTag(last) =>
    /\ EarlierDone(last, reg)
    /\ \A m \in TagIndex(last)..Len(last.tags) :
         SameOn(reg, last.before, last.tags[m])

\* C2 as amended: after an Add or Remove aborted by a remote failure at tag
\* t(k), t(1)..t(k-1) are fully applied/removed, and every tag of t(k)..t(n)
\* that does not occur among t(1)..t(k-1) is on exactly the images it was on
\* before the call, except t(k) when the failing call is an attach/delete that
\* is not the first of t(k)'s inner loop: then exactly the images processed
\* before the failing call, all of them among those the lookup found, have
\* gained (Add) or lost (Remove) t(k).
C2_BoundaryUpToInnerLoop ==
  AbortedAtTag(last) =>
    LET k == TagIndex(last)
        tk == last.tags[k]
        found == Carriers(last.before, IF last.kind = "Add" THEN last.version ELSE tk)
        changed == {img \in Images : (tk \in reg[img]) # (tk \in last.before[img])}
    IN /\ EarlierDone(last, reg)
       /\ \A m \in k..Len(last.tags) :
            (last.tags[m] \notin Elems(SubSeq(last.tags, 1, k - 1))) =>
              IF last.tags[m] # tk
              THEN SameOn(reg, last.before, last.tags[m])
              ELSE /\ changed \subseteq found
                   /\ Cardinality(changed) <= Processed(last)
                   /\ \A img \in changed : (tk \in reg[img]) <=> (last.kind = "Add")
                   /\ Processed(last) = 0 => changed = {}

\* C2 witness: a call of two different tags aborted at the second one by an
\* attach/delete that is not the first of its inner loop, the images before it
\* already changed.
C2_Witness ==
  /\ AbortedAtTag(last)
  /\ TagIndex(last) = 2
  /\ last.tags[1] # last.tags[2]
  /\ Processed(last) >= 1
  /\ ~SameOn(reg, last.before, last.tags[2])

\* C3: Get with two or more images of version returns InvariantViolation and
\* no tag list; Get in every outcome issues no put or delete and leaves the
\* registry as it was.
C3_GetManyIsInvariantViolation ==
  last.kind = "Get" =>
    /\ reg = last.before
    /\ Elems(last.calls) \subseteq {"descimg"}
    /\ (/\ WellFormed(last)
        /\ last.failAt = 0
        /\ Cardinality(Carriers(last.before, last.version)) >= 2)
       => (last.result = "InvariantViolation" /\ last.ret = {})

C3_Witness ==
  /\ last.kind = "Get"
  /\ last.result = "InvariantViolation"
  /\ Cardinality(Carriers(last.before, last.version)) >= 2

AddEnvThenGet ==
  /\ last.kind = "Get"
  /\ prev.kind = "Add"
  /\ prev.result = "ok"
  /\ WellFormed(prev)
  /\ prev.version = "v1"
  /\ prev.tags = <<"env">>
  /\ Cardinality(Carriers(prev.before, "v1")) = 1
  /\ last.ref = prev.ref
  /\ last.version = "v1"
  /\ last.failAt = 0

\* C4: from a registry where exactly one image carries "v1", Get(ref, "v1")
\* straight after a successful Add(ref, "v1", "env"), with no remote failure,
\* returns tags containing "v1" and "env".
C4_GetAfterAddHasBoth ==
  AddEnvThenGet => (last.result = "ok" /\ {"v1", "env"} \subseteq last.ret)

\* C4 witness: the case where "env" sat on another image, and not on the
\* image of "v1", before Add.
C4_Witness ==
  /\ AddEnvThenGet
  /\ \E img \in Images : "env" \in prev.before[img] /\ "v1" \notin prev.before[img]
  /\ \E img \in Images : "v1" \in prev.before[img] /\ "env" \notin prev.before[img]

\* C5: Get(ref, "v1") straight after a successful Remove(ref, "v1") returns
\* NotFound.
C5_GetAfterRemoveIsNotFound ==
  (/\ last.kind = "Get"
   /\ prev.kind = "Remove"
   /\ prev.result = "ok"
   /\ WellFormed(prev)
   /\ prev.tags = <<"v1">>
   /\ last.ref = prev.ref
   /\ last.version = "v1"
   /\ last.failAt = 0)
  => last.result = "NotFound"

\* C6: after Remove returns without error no image carries any of the tags
\* removed, and every other tag is on the images it was on.
C6_RemoveLeavesNoCarrier ==
  (last.kind = "Remove" /\ last.result = "ok" /\ WellFormed(last)) =>
    /\ \A t \in Elems(last.tags) : Carriers(reg, t) = {}
    /\ \A t \in Tags \ Elems(last.tags) : SameOn(reg, last.before, t)

\* C6 witness: a tag listed twice that several images carried, beside a tag
\* that stays.
C6_Witness ==
  /\ last.kind = "Remove"
  /\ last.result = "ok"
  /\ Len(last.tags) = 2
  /\ last.tags[1] = last.tags[2]
  /\ Cardinality(Carriers(last.before, last.tags[1])) >= 2
  /\ \E t \in Tags \ Elems(last.tags) : Carriers(reg, t) # {}

C8_AddKeepsVersion ==
  last.kind = "Add" => SameOn(reg, last.before, last.version)

\* C8 witness: a list holding version itself and a tag bound to another image,
\* and a call that changed the registry.
C8_Witness ==
  /\ last.kind = "Add"
  /\ last.version \in Elems(last.tags)
  /\ \E t \in Elems(last.tags) : \E img \in Images :
       t \in last.before[img] /\ last.version \notin last.before[img]
  /\ Carriers(last.before, last.version) # {}
  /\ reg # last.before

\* The call just made found no image: Add no image of version, Remove no
\* image of any tag of its list.
FoundNothing(l) ==
  /\ l.kind \in {"Add", "Remove"}
  /\ WellFormed(l)
  /\ l.tags # <<>>
  /\ IF l.kind = "Add" THEN Carriers(l.before, l.version) = {}
     ELSE \A t \in Elems(l.tags) : Carriers(l.before, t) = {}

\* C9: an Add whose lookups find no image of version, and a Remove of tags no
\* image carries, issue no put or delete and leave the registry unchanged;
\* with no remote failure they return success and increment no counter.
C9_NothingFoundIsNoOp ==
  [][FoundNothing(last') =>
       /\ Elems(last'.calls) \subseteq {"batchget"}
       /\ reg' = reg
       /\ last'.failAt = 0 =>
            /\ last'.result = "ok"
            /\ Len(last'.calls) = Len(last'.tags)
            /\ stats' = stats]_vars

C9_Witness ==
  /\ FoundNothing(last)
  /\ last.kind = "Add"
  /\ last.result = "ok"
  /\ Len(last.tags) = 2

\* The kinds of remote call each operation issues.
CallKinds(kind) ==
  IF kind = "Add" THEN {"batchget", "putimage"}
  ELSE IF kind = "Remove" THEN {"batchget", "batchdelete"}
  ELSE {"descimg"}

\* C10: the first remote call that fails is the last call issued, the
\* operation returns an error, and exactly the counter of the failed call's
\* kind is incremented, by one; an operation that returns success, a parse
\* failure or the multiple-match error increments no counter.
C10_FirstFailureIsLastCall ==
  [][last'.kind # "none" =>
       /\ Elems(last'.calls) \subseteq CallKinds(last'.kind)
       /\ last'.failAt > 0 <=> last'.result = "RemoteCallError"
       /\ last'.result = "RemoteCallError" =>
            /\ Len(last'.calls) = last'.failAt
            /\ stats' = [stats EXCEPT ![last'.calls[last'.failAt]] = @ + 1]
       /\ last'.result # "RemoteCallError" => stats' = stats
       /\ last'.result = "ParseError" <=> ~WellFormed(last')
       /\ last'.result = "ParseError" => last'.calls = <<>>]_vars

\* C10 witness: an Add aborted by a failing put after a put that succeeded.
C10_Witness ==
  /\ last.kind = "Add"
  /\ last.result = "RemoteCallError"
  /\ Len(last.calls) >= 3
  /\ last.calls[Len(last.calls)] = "putimage"
  /\ last.calls[Len(last.calls) - 1] = "putimage"
  /\ stats["putimage"] = 1

====
